---------------------------- MODULE Spec2Model ----------------------------
(***************************************************************************)
(* Emergence simulation: the zones (spatial index, free-slot stack and     *)
(* time ring), the monad operations (merge, bounce, bond, emit, nullify)   *)
(* and the per-tick update loop.                                           *)
(*                                                                         *)
(* Lengths are fixed-point integers: one world unit is Unit model units.   *)
(* Distances are compared through their squares, so no square root is      *)
(* taken when two spheres are tested for overlap.                          *)
(***************************************************************************)
EXTENDS Integers, Sequences, FiniteSets, TLC

(***************************************************************************)
(* Bounds of the model                                                     *)
(***************************************************************************)
\* fixed-point resolution: model units per world unit
Unit == 10
\* pool capacity (controls.constant.maximum scaled down)
MAX == 5
\* number of updates explored
MaxTick == 5

(***************************************************************************)
(* Program constants                                                       *)
(***************************************************************************)
\* DENSITY = 0.238, in thousandths
density == 238
\* the eviction scan gives up after this many ring entries
ScanLimit == 1024
\* this.RENDER * 2 world units
NONRENDER_DISTANCE == 100000 * Unit
\* countdown set by bond/unbond coloring
BondCountdown == 64
\* countdown set by the next-tick collision coloring
CollideCountdown == 3
\* countdown set by the merge coloring
MergeCountdown == 16
\* countdown set by the emission coloring
EmitCountdown == 8
\* countdown of a frozen particle (Infinity)
Infinity == 1000000

Min(a, b) == IF a < b THEN a ELSE b
Max(a, b) == IF a > b THEN a ELSE b
Abs(a) == IF a < 0 THEN -a ELSE a

\* integer cube root (largest r with r^3 <= n)
ICbrt(n) == CHOOSE r \in 0..(8 * Unit) : r * r * r <= n /\ (r + 1) * (r + 1) * (r + 1) > n

\* integer square root (largest r with r^2 <= n)
ISqrt(n) == CHOOSE r \in 0..(48 * Unit) : r * r <= n /\ (r + 1) * (r + 1) > n

\* radius of a sphere of the given mass and density (pi taken as 22/7)
radiusSphere(mass, dens) == ICbrt((3 * mass * Unit * Unit * Unit * 7 * 1000) \div (4 * 22 * dens))

\* MAXVEL = radiusSphere(1.0, DENSITY) * 2
maxSpeed == radiusSphere(1, density) * 2

\* world radius and zone size, in model units
size == 6 * Unit
zoning == 4 * Unit
\* zones per side: ceil(size * 2 / zoning)
length == ((size * 2) + zoning - 1) \div zoning

\* a coordinate difference beyond this is between a parked and a placed particle
Far == 4 * size + 1

Indices == 0..(MAX - 1)
Cells == (0..(length - 1)) \X (0..(length - 1)) \X (0..(length - 1))

(***************************************************************************)
(* Vectors                                                                 *)
(***************************************************************************)
Vec(x, y, z) == <<x, y, z>>
ZeroVec == <<0, 0, 0>>
VAdd(a, b) == <<a[1] + b[1], a[2] + b[2], a[3] + b[3]>>
VSub(a, b) == <<a[1] - b[1], a[2] - b[2], a[3] - b[3]>>
VScale(a, k) == <<a[1] * k, a[2] * k, a[3] * k>>
\* division truncating towards zero, componentwise
TDiv(a, k) == IF a >= 0 THEN a \div k ELSE -((-a) \div k)
VDiv(a, k) == <<TDiv(a[1], k), TDiv(a[2], k), TDiv(a[3], k)>>
VDot(a, b) == a[1] * b[1] + a[2] * b[2] + a[3] * b[3]

\* square of p.distanceTo(q), saturated so that parked particles do not overflow
distanceSq(a, b) ==
    LET d == VSub(a, b) IN
    IF Abs(d[1]) >= Far \/ Abs(d[2]) >= Far \/ Abs(d[3]) >= Far
    THEN 3 * Far * Far
    ELSE VDot(d, d)

(***************************************************************************)
(* State                                                                   *)
(***************************************************************************)
VARIABLES
    monads,      \* Emergence.monads: the pool of particles
    array,       \* Zones.array: per cell, [0] the fill length, [1..n] the indices
    freeslots,   \* Zones.freeslots
    free,        \* Zones.free
    timeslots,   \* Zones.timeslots
    timeOld,     \* Zones.timeOld
    timeNew,     \* Zones.timeNew
    particles,   \* stats.instant.particles
    controls,    \* the configuration snapshot (toggles, enforce)
    time,        \* stats.time.first / subsequent
    tick,        \* number of updates done
    p,           \* position of the update loop (pool index being processed)
    phase,       \* position inside the processing of one particle
    clock,       \* history: stamps handed out to created particles
    events,      \* history: what the last step did
    begun        \* history: the pool as the last update started found it

vars == <<monads, array, freeslots, free, timeslots, timeOld, timeNew, particles,
          controls, time, tick, p, phase, clock, events, begun>>

\* an inert particle, as the Monad constructor leaves it
NullZone == [x |-> -1, y |-> -1, z |-> -1, i |-> -1]
NonRender == <<NONRENDER_DISTANCE, NONRENDER_DISTANCE, NONRENDER_DISTANCE>>
Monad ==
    [attractons |-> 0, repulsons |-> 0, radius |-> 0, countdown |-> 0, mountdown |-> 0,
     emit |-> 0,
     position |-> NonRender, velocity |-> ZeroVec, zone |-> NullZone,
     bonds |-> <<>>, parentIndex |-> -1, slot |-> -1,
     check |-> <<0, 0, 0>>, oob |-> <<0, 0, 0>>,
     born |-> 0, parentBorn |-> 0]

getMass(m) == m.attractons + m.repulsons

\* the mutable program state handled by the operations below
Cur ==
    [monads |-> monads, array |-> array, freeslots |-> freeslots, free |-> free,
     timeslots |-> timeslots, timeOld |-> timeOld, timeNew |-> timeNew,
     particles |-> particles, clock |-> clock, events |-> <<>>]

Store(S) ==
    /\ monads' = S.monads
    /\ array' = S.array
    /\ freeslots' = S.freeslots
    /\ free' = S.free
    /\ timeslots' = S.timeslots
    /\ timeOld' = S.timeOld
    /\ timeNew' = S.timeNew
    /\ particles' = S.particles
    /\ clock' = S.clock
    /\ events' = S.events

\* one entry of the history of a step
Event(kind, a, b, x, y, z) == [kind |-> kind, a |-> a, b |-> b, x |-> x, y |-> y, z |-> z]
Log(S, e) == [S EXCEPT !.events = Append(@, e)]

(***************************************************************************)
(* Zones: cell membership                                                  *)
(***************************************************************************)
CellOf(zone) == <<zone.x, zone.y, zone.z>>

\* clearFromZone without the correction of the moved particle's intra-cell index
clearFromZoneStaleIndex(S, idx) ==
    LET mzone == S.monads[idx].zone IN
    IF mzone.x >= 0 /\ mzone.y >= 0 /\ mzone.z >= 0
    THEN LET c == CellOf(mzone)
             zone == S.array[c]
             i == mzone.i
             last == zone[zone[0]]
             zone1 == IF i \in DOMAIN zone THEN [zone EXCEPT ![i] = last] ELSE zone
             zone2 == [zone1 EXCEPT ![0] = zone[0] - 1]
         IN [S EXCEPT !.array[c] = zone2, !.monads[idx].zone.i = -1]
    ELSE [S EXCEPT !.monads[idx].zone.i = -1]

\* Zones.prototype.clearFromZone
clearFromZone(S, idx) ==
    LET mzone == S.monads[idx].zone IN
    IF mzone.x >= 0 /\ mzone.y >= 0 /\ mzone.z >= 0
    THEN LET c == CellOf(mzone)
             zone == S.array[c]
             i == mzone.i
             last == zone[zone[0]]
             zone1 == IF i \in DOMAIN zone THEN [zone EXCEPT ![i] = last] ELSE zone
             zone2 == [zone1 EXCEPT ![0] = zone[0] - 1]
             m1 == IF zone2[0] # 0 /\ last \in Indices
                   THEN [S.monads EXCEPT ![last].zone.i = i]
                   ELSE S.monads
             m2 == [m1 EXCEPT ![idx].zone.i = -1]
         IN [S EXCEPT !.array[c] = zone2, !.monads = m2]
    ELSE [S EXCEPT !.monads[idx].zone.i = -1]

\* Zones.prototype.addToZone
addToZone(S, idx) ==
    LET mzone == S.monads[idx].zone
        c == CellOf(mzone)
        n == S.array[c][0] + 1
    IN [S EXCEPT !.array[c] = [@ EXCEPT ![0] = n, ![n] = idx],
                 !.monads[idx].zone.i = n]

\* floor((pos + size) / zoning)
ZoneCoord(v) == (v + size) \div zoning

\* Zones.prototype.updateZone
updateZone(S, idx) ==
    LET pos == S.monads[idx].position
        zone == S.monads[idx].zone
        x == ZoneCoord(pos[1])
        y == ZoneCoord(pos[2])
        z == ZoneCoord(pos[3])
    IN IF x # zone.x \/ y # zone.y \/ z # zone.z
       THEN LET S1 == IF zone.i > 0 THEN clearFromZone(S, idx) ELSE S
                S2 == [S1 EXCEPT !.monads[idx].zone.x = x,
                                 !.monads[idx].zone.y = y,
                                 !.monads[idx].zone.z = z]
            IN addToZone(S2, idx)
       ELSE S

(***************************************************************************)
(* Zones: free-slot stack and time ring                                    *)
(***************************************************************************)
\* addFreeSlot that stores the index without growing the free stack
addFreeSlotNoPush(S, idx) ==
    LET slot == S.monads[idx].slot
        S1 == IF slot > -1
              THEN [S EXCEPT !.timeslots[slot] = -1, !.monads[idx].slot = -1]
              ELSE S
    IN [S1 EXCEPT !.freeslots[S.free] = idx,
                  !.particles = S.particles - 1]

\* addFreeSlot that leaves the particle's entry in the time ring
addFreeSlotKeepTime(S, idx) ==
    [S EXCEPT !.freeslots[S.free] = idx,
              !.free = S.free + 1,
              !.particles = S.particles - 1]

\* Zones.prototype.addFreeSlot
addFreeSlot(S, idx) ==
    LET slot == S.monads[idx].slot
        S1 == IF slot > -1
              THEN [S EXCEPT !.timeslots[slot] = -1, !.monads[idx].slot = -1]
              ELSE S
    IN [S1 EXCEPT !.freeslots[S.free] = idx,
                  !.free = S.free + 1,
                  !.particles = S.particles - 1]

\* nullify that leaves the particle in its cell list
nullifyKeepCell(S, idx) ==
    addFreeSlot([S EXCEPT !.monads[idx].bonds = <<>>,
                          !.monads[idx].position = NonRender,
                          !.monads[idx].zone = NullZone,
                          !.monads[idx].attractons = 0,
                          !.monads[idx].repulsons = 0,
                          !.monads[idx].radius = 0,
                          !.monads[idx].countdown = 0,
                          !.monads[idx].mountdown = 0,
                          !.monads[idx].emit = 0,
                          !.monads[idx].velocity = ZeroVec],
                idx)

\* Monad.prototype.nullify
nullify(S, idx) ==
    LET S1 == clearFromZone(S, idx)
        S2 == [S1 EXCEPT !.monads[idx].bonds = <<>>,
                         !.monads[idx].position = NonRender,
                         !.monads[idx].zone = NullZone,
                         !.monads[idx].attractons = 0,
                         !.monads[idx].repulsons = 0,
                         !.monads[idx].radius = 0,
                         !.monads[idx].countdown = 0,
                         !.monads[idx].mountdown = 0,
                         !.monads[idx].emit = 0,
                         !.monads[idx].velocity = ZeroVec]
    IN addFreeSlot(S2, idx)

\* Monad.prototype.updateRadius
updateRadius(S, idx) ==
    [S EXCEPT !.monads[idx].radius = radiusSphere(getMass(S.monads[idx]), density)]

(***************************************************************************)
(* Zones: nextFreeSlot                                                     *)
(***************************************************************************)
\* live quanta whose index is held by some entry of the time ring
TrackedQuanta(S) ==
    {i \in Indices : /\ getMass(S.monads[i]) = 1
                      /\ \E t \in Indices : S.timeslots[t] = i}

\* stamp of the earliest created tracked quantum (0 when there is none)
OldestBorn(S) ==
    IF TrackedQuanta(S) = {} THEN 0
    ELSE LET Q == TrackedQuanta(S)
         IN S.monads[CHOOSE i \in Q : \A j \in Q : S.monads[i].born <= S.monads[j].born].born

\* the do-while of nextFreeSlot: free the timeslot at timeOld and step timeOld on
ScanStep(S) ==
    [S EXCEPT !.timeslots[S.timeOld] = -1,
              !.timeOld = IF S.timeOld + 1 >= MAX THEN 0 ELSE S.timeOld + 1]

\* the do-while of nextFreeSlot: find the first valid timeslot
RECURSIVE EvictScan(_, _, _)
EvictScan(S, count, monad) ==
    LET slot == S.timeslots[S.timeOld]
        monad1 == IF slot > -1 THEN slot ELSE monad
    IN IF count + 1 >= Min(MAX, ScanLimit)
       THEN [S |-> S, monad |-> -1]
       ELSE IF \/ slot = -1
               \/ S.monads[monad1].radius = 0
               \/ getMass(S.monads[monad1]) > 1
            THEN EvictScan(ScanStep(S), count + 1, monad1)
            ELSE [S |-> ScanStep(S), monad |-> monad1]

\* nextFreeSlot: the unit of the evicted quantum is added to the parent's composition
ReabsorbUnit(S, monad, parent) ==
    IF S.monads[monad].attractons > 0
    THEN [S EXCEPT !.monads[parent].attractons = @ + 1]
    ELSE [S EXCEPT !.monads[parent].repulsons = @ + 1]

\* history: the evicted quantum, the index its unit went to, whether the particle
\* at that index is the one that emitted it, and the composition change
ReabsorbEnd(S, Was, monad, parent) ==
    Log(S, Event("reabsorb", monad, parent,
                 IF Was.monads[parent].born = Was.monads[monad].parentBorn THEN 1 ELSE 0,
                 S.monads[parent].attractons - Was.monads[parent].attractons,
                 S.monads[parent].repulsons - Was.monads[parent].repulsons))

\* history: the unit of the evicted quantum is dropped; x tells whether the particle
\* that emitted it is still there with a mass above 1
Discard(S, monad, parent) ==
    Log(S, Event("discard", monad, parent,
                 IF /\ parent >= 0
                    /\ S.monads[parent].born = S.monads[monad].parentBorn
                    /\ getMass(S.monads[parent]) > 1 THEN 1 ELSE 0,
                 0, 0))

\* reabsorption of the evicted quantum by the occupant of its parent index
Reabsorb(S, monad) ==
    LET parent == S.monads[monad].parentIndex
    IN IF controls.toggle.reabsorption /\ parent >= 0
       THEN IF getMass(S.monads[parent]) > 1
            THEN ReabsorbEnd(ReabsorbUnit(S, monad, parent), S, monad, parent)
            ELSE Discard(S, monad, parent)
       ELSE Discard(S, monad, parent)

\* advance timeNew to the next empty timeslot; steps counts the entries passed
RECURSIVE AdvanceNew(_, _)
AdvanceNew(S, steps) ==
    IF S.timeslots[S.timeNew] = -1 \/ steps >= MAX
    THEN S
    ELSE AdvanceNew([S EXCEPT !.timeNew = IF S.timeNew + 1 >= MAX THEN 0 ELSE S.timeNew + 1],
                    steps + 1)

\* the tail of nextFreeSlot: pop the free stack and count the particle
PopFree(S) ==
    [S EXCEPT !.free = S.free - 1,
              !.freeslots[S.free - 1] = -1,
              !.particles = S.particles + 1]

\* the store of the slot in the time ring, once timeNew points to an empty timeslot;
\* with no empty timeslot the while loop never ends
StoreTime(S, slot, was) ==
    IF S.timeslots[S.timeNew] # -1
    THEN [S |-> Log(S, Event("hang", slot, -1, 0, 0, 0)), slot |-> -1, hang |-> TRUE]
    ELSE [S |-> Log([S EXCEPT !.timeslots[S.timeNew] = slot,
                              !.monads[slot].slot = S.timeNew,
                              !.timeNew = IF S.timeNew + 1 >= MAX THEN 0 ELSE S.timeNew + 1],
                    Event("acquire", slot, was, 0, 0, 0)),
          slot |-> slot, hang |-> FALSE]

\* a tail of nextFreeSlot that hands out the entry at the bottom of the free stack
TakeSlotBottom(S) == StoreTime(AdvanceNew(PopFree(S), 0), S.freeslots[0], S.free)

\* the tail of nextFreeSlot: pop the free stack and enter the slot in the time ring
TakeSlot(S) == StoreTime(AdvanceNew(PopFree(S), 0), S.freeslots[S.free - 1], S.free)

\* history: the evicted quantum, its parent index, its stamp, the stamp of the
\* earliest created tracked quantum, and its polarity
EvictEnd(S, Was, monad) ==
    Log(S, Event("evict", monad, Was.monads[monad].parentIndex,
                 Was.monads[monad].born, OldestBorn(Was),
                 IF Was.monads[monad].attractons > 0 THEN 1 ELSE -1))

\* nextFreeSlot after its scan of the time ring
Evict(scan, Was) ==
    IF scan.monad = -1
    THEN [S |-> Log(scan.S, Event("scanfail", -1, -1, 0, 0, 0)), slot |-> -1, hang |-> FALSE]
    ELSE TakeSlot(nullify(Reabsorb(EvictEnd(scan.S, Was, scan.monad), scan.monad), scan.monad))

\* a nextFreeSlot that keeps no reserve: it hands out a slot while one is free
nextFreeSlotNoReserve(S, buffer) ==
    IF S.free = 0
    THEN IF ~controls.toggle.displacement
         THEN [S |-> S, slot |-> -1, hang |-> FALSE]
         ELSE Evict(EvictScan(S, 0, -1), S)
    ELSE TakeSlot(S)

\* Zones.prototype.nextFreeSlot
nextFreeSlot(S, buffer) ==
    IF S.free <= buffer
    THEN IF ~controls.toggle.displacement
         THEN [S |-> S, slot |-> -1, hang |-> FALSE]
         ELSE Evict(EvictScan(S, 0, -1), S)
    ELSE TakeSlot(S)

(***************************************************************************)
(* Monad: velocity and position                                            *)
(***************************************************************************)
\* Monad.prototype.checkVelocity(-1, false): cap the speed at maxSpeed
checkVelocity(S, idx) ==
    LET v == S.monads[idx].velocity
        sq == VDot(v, v)
    IN IF sq > maxSpeed * maxSpeed
       THEN [S EXCEPT !.monads[idx].velocity = VDiv(VScale(v, maxSpeed), ISqrt(sq))]
       ELSE S

\* the velocity one side of a bounce takes: v1 of mass t1 against u2 weighted by m2
BounceVelocity(v1, t1, u2, m2, add) ==
    LET a == VScale(v1, t1)
        b == VScale(u2, m2)
        attractRepulse == controls.toggle.attractRepulse
        c == IF VDot(a, a) > 0
             THEN IF attractRepulse /\ add > 0 THEN VAdd(a, b) ELSE VSub(a, b)
             ELSE IF ~attractRepulse \/ add < 0 THEN VScale(b, -1) ELSE b
    IN VDiv(c, t1 + m2)

\* Monad.prototype.bounce (quantaWeight = 1.0): the velocity of the calling monad
BounceThis(S, this, other, both) ==
    LET m == S.monads[this]
        o == S.monads[other]
        \* add * mass of the other particle, so that it stays an integer
        n1 == o.repulsons - o.attractons
        add1 == IF both \/ (this = o.parentIndex /\ o.countdown < 0) THEN -n1 ELSE n1
    IN IF add1 # 0
       THEN checkVelocity([S EXCEPT !.monads[this].velocity =
                               BounceVelocity(m.velocity, getMass(m), o.velocity, Abs(add1), add1)],
                          this)
       ELSE S

\* Monad.prototype.bounce: the velocity of the other monad, from the velocities
\* both had before (Was)
BounceOther(S, Was, this, other, both) ==
    LET m == Was.monads[this]
        o == Was.monads[other]
        n2 == m.repulsons - m.attractons
        add2 == IF both \/ (other = m.parentIndex /\ m.countdown < 0) THEN -n2 ELSE n2
    IN IF both /\ add2 # 0
       THEN checkVelocity([S EXCEPT !.monads[other].velocity =
                               BounceVelocity(o.velocity, getMass(o), m.velocity, Abs(add2), add2)],
                          other)
       ELSE S

\* Monad.prototype.bounce (quantaWeight = 1.0)
bounce(S, this, other, both) ==
    BounceOther(BounceThis(S, this, other, both), S, this, other, both)

\* one coordinate of Monad.prototype.checkBounds
WrapCoord(v) == IF v >= size THEN v - 2 * size ELSE IF v < -size THEN v + 2 * size ELSE v

\* Monad.prototype.checkBounds
checkBounds(S, idx) ==
    LET pos == S.monads[idx].position
    IN updateZone([S EXCEPT !.monads[idx].position =
                       <<WrapCoord(pos[1]), WrapCoord(pos[2]), WrapCoord(pos[3])>>], idx)

\* Monad.prototype.midpoint(other, false): the mass-weighted mean position
MidPosition(S, this, other) ==
    LET t1 == getMass(S.monads[this])
        t2 == getMass(S.monads[other])
        p1 == S.monads[this].position
        p2 == S.monads[other].position
    IN [S EXCEPT !.monads[this].position =
            VDiv(VAdd(VScale(p1, t1), VScale(p2, t2)), t1 + t2)]

\* Monad.prototype.midpoint(other, false)
midpoint(S, this, other) == checkBounds(checkBounds(MidPosition(S, this, other), this), other)

\* Monad.prototype.updatePosition
updatePosition(S, idx) ==
    checkBounds([S EXCEPT !.monads[idx].position = VAdd(@, S.monads[idx].velocity)], idx)

(***************************************************************************)
(* Monad: merge, bond, unbond, freeze, emit                                *)
(***************************************************************************)
\* a merge that breaks the tie of equal masses by the higher index
MergeSelfHigherIndex(S, this, other) ==
    LET mdif == getMass(S.monads[this]) - getMass(S.monads[other])
    IN mdif < 0 \/ (mdif = 0 /\ this < other)

\* Monad.prototype.merge: whether the calling monad is the smaller one, which
\* is nullified
MergeSelf(S, this, other) ==
    LET mdif == getMass(S.monads[this]) - getMass(S.monads[other])
    IN mdif < 0 \/ (mdif = 0 /\ this > other)

\* history: the two particles and the sums of their compositions before the merge
MergeBegin(S, monad1, monad2, self) ==
    Log(S, Event("merge", monad1, monad2,
                 S.monads[monad1].attractons + S.monads[monad2].attractons,
                 S.monads[monad1].repulsons + S.monads[monad2].repulsons,
                 IF self THEN 1 ELSE 0))

\* a merge that takes over the attractons only
MergeQuantaAttractons(S, monad1, monad2) ==
    updateRadius([S EXCEPT !.monads[monad1].attractons = @ + S.monads[monad2].attractons],
                 monad1)

\* the composition change of merge
MergeQuanta(S, monad1, monad2) ==
    updateRadius([S EXCEPT !.monads[monad1].attractons = @ + S.monads[monad2].attractons,
                           !.monads[monad1].repulsons = @ + S.monads[monad2].repulsons],
                 monad1)

\* the coloring of merge; m2 is the mass the absorbed particle had
MergeColor(S, monad1, m2) ==
    LET q1 == S.monads[monad1] IN
    IF controls.display.collision
    THEN IF q1.mountdown = 0 \/ m2 > 1
         THEN IF m2 = 1
              THEN [S EXCEPT !.monads[monad1].countdown = Max(q1.countdown, MergeCountdown),
                             !.monads[monad1].mountdown = -1]
              ELSE [S EXCEPT !.monads[monad1].countdown = BondCountdown,
                             !.monads[monad1].mountdown = BondCountdown]
         ELSE [S EXCEPT !.monads[monad1].countdown = Max(q1.countdown, MergeCountdown)]
    ELSE S

\* history: the compositions after the merge
MergeEnd(S, monad1, monad2, self) ==
    [S |-> Log(S, Event("merged", monad1, monad2,
                        S.monads[monad1].attractons, S.monads[monad1].repulsons,
                        getMass(S.monads[monad2]))),
     self |-> self]

\* merge once the bigger monad is the primary monad1
MergePrimary(S, monad1, monad2, self) ==
    MergeEnd(MergeColor(nullify(MergeQuanta(midpoint(bounce(MergeBegin(S, monad1, monad2, self),
                                                            monad1, monad2, FALSE),
                                                     monad1, monad2),
                                            monad1, monad2),
                                monad2),
                        monad1, getMass(S.monads[monad2])),
             monad1, monad2, self)

\* Monad.prototype.merge; self tells that the calling monad was nullified
merge(S, this, other) ==
    IF MergeSelf(S, this, other)
    THEN MergePrimary(S, other, this, TRUE)
    ELSE MergePrimary(S, this, other, FALSE)

\* the coloring of bond
BondColor(S, this, other) ==
    IF controls.display.bonding
    THEN [S EXCEPT !.monads[this].countdown = BondCountdown,
                   !.monads[this].mountdown = BondCountdown,
                   !.monads[other].countdown = BondCountdown,
                   !.monads[other].mountdown = BondCountdown]
    ELSE S

\* the bounce of two monads that bond
BondBounce(S, this, other) ==
    IF controls.bonding.bounce THEN bounce(S, this, other, TRUE) ELSE S

\* Monad.prototype.bond; never compromises the calling monad
bond(S, this, other) ==
    [S |-> Log(BondColor(BondBounce([S EXCEPT !.monads[this].bonds = Append(@, other),
                                              !.monads[other].bonds = Append(@, this)],
                                    this, other),
                         this, other),
               Event("bond", this, other, 0, 0, 0)),
     self |-> FALSE]

\* Array.prototype.indexOf, 1-based, 0 when absent
IndexOf(seq, x) ==
    IF \E k \in 1..Len(seq) : seq[k] = x
    THEN CHOOSE k \in 1..Len(seq) : seq[k] = x /\ \A j \in 1..(k - 1) : seq[j] # x
    ELSE 0

\* seq.splice(seq.indexOf(x), 1): an absent x (index -1) removes the last element
SpliceIndexOf(seq, x) ==
    LET k == IF IndexOf(seq, x) = 0 THEN Len(seq) ELSE IndexOf(seq, x)
    IN IF Len(seq) = 0 THEN seq
       ELSE SubSeq(seq, 1, k - 1) \o SubSeq(seq, k + 1, Len(seq))

\* Monad.prototype.unbond: the two splices
UnbondSplice(S, this, other, collapse) ==
    Log([S EXCEPT !.monads[this].bonds = SpliceIndexOf(@, other),
                  !.monads[other].bonds = SpliceIndexOf(@, this)],
        Event("unbond", this, other, IF collapse THEN 1 ELSE 0, 0, 0))

\* the coloring of unbond
UnbondColor(S, this, other) ==
    IF controls.display.bonding /\ S.monads[other].radius # 0
    THEN [S EXCEPT !.monads[this].countdown = BondCountdown,
                   !.monads[this].mountdown = BondCountdown,
                   !.monads[other].countdown = BondCountdown,
                   !.monads[other].mountdown = BondCountdown]
    ELSE S

\* an unbond that never collapses the pair
unbondOnly(S, this, other, collapse) ==
    [S |-> UnbondColor(UnbondSplice(S, this, other, collapse), this, other),
     self |-> FALSE]

\* Monad.prototype.unbond
unbond(S, this, other, collapse) ==
    IF collapse THEN merge(UnbondSplice(S, this, other, collapse), this, other)
    ELSE [S |-> UnbondColor(UnbondSplice(S, this, other, collapse), this, other),
          self |-> FALSE]

\* the countdowns of freeze
FreezeColor(S, this, other) ==
    IF controls.display.collision
    THEN [S EXCEPT !.monads[this].countdown = Infinity,
                   !.monads[other].countdown = Infinity]
    ELSE S

\* Monad.prototype.freeze; always compromises the calling monad
freeze(S, this, other) ==
    [S |-> Log(FreezeColor([S EXCEPT !.monads[this].velocity = ZeroVec,
                                     !.monads[other].velocity = ZeroVec],
                           this, other),
               Event("freeze", this, other, 0, 0, 0)),
     self |-> TRUE]

\* Monad.prototype.emit: the unit taken from the emitter and given to the new
\* quantum; attracton is the outcome of the polarity draw
EmitUnit(S, this, other, attracton) ==
    LET q1 == S.monads[this]
        polar == q1.attractons = 0 \/ q1.repulsons = 0
    IN IF q1.attractons > 0 /\ (polar \/ attracton)
       THEN [S EXCEPT !.monads[this].attractons = @ - 1,
                      !.monads[other].attractons = @ + 1]
       ELSE [S EXCEPT !.monads[this].repulsons = @ - 1,
                      !.monads[other].repulsons = @ + 1]

\* the new quantum takes its parent and its position
EmitPlace(S, this, other) ==
    updateZone([updateRadius(S, other) EXCEPT !.monads[other].parentIndex = this,
                                              !.monads[other].position = S.monads[this].position,
                                              !.monads[other].born = S.clock + 1,
                                              !.monads[other].parentBorn = S.monads[this].born,
                                              !.clock = S.clock + 1],
               other)

\* the new quantum takes its velocity and its escape countdown
EmitLaunch(S, this, other, vel) ==
    [S EXCEPT !.monads[other].velocity = vel,
              !.monads[other].countdown = -(this + 1),
              !.monads[this].emit = @ - 1]

\* the coloring of emit
EmitColor(S, this) ==
    IF controls.display.radiation
    THEN [S EXCEPT !.monads[this].countdown = EmitCountdown]
    ELSE S

\* history: the emitter, the quantum, its polarity and the mass left to the emitter
EmitEnd(S, this, other) ==
    Log(S, Event("emit", this, other,
                 IF S.monads[other].attractons > 0 THEN 1 ELSE -1,
                 getMass(S.monads[this]), 0))

\* Monad.prototype.emit: attracton is the outcome of the polarity draw, vel the
\* velocity drawn for the new quantum (already forced to maxSpeed)
emit(S, this, other, attracton, vel) ==
    EmitEnd(EmitColor(bounce(updateRadius(EmitLaunch(EmitPlace(EmitUnit(S, this, other, attracton),
                                                               this, other),
                                                     this, other, vel),
                                          this),
                             this, other, FALSE),
                      this),
            this, other)

(***************************************************************************)
(* Monad: toroidal distance and escape                                     *)
(***************************************************************************)
\* one coordinate of Monad.prototype.getOutOfBounds with its check flag set
FlipCoord(v, sz, limit) ==
    IF v < -limit THEN sz + (sz + v)
    ELSE IF v >= limit THEN -sz - (sz - v)
    ELSE v

\* Monad.prototype.getOutOfBounds; check is the <<x, y, z>> vector of 0/1 flags
getOutOfBounds(pos, check, sz, limit) ==
    LET lim == Max(0, limit) IN
    <<IF check[1] # 0 THEN FlipCoord(pos[1], sz, lim) ELSE pos[1],
      IF check[2] # 0 THEN FlipCoord(pos[2], sz, lim) ELSE pos[2],
      IF check[3] # 0 THEN FlipCoord(pos[3], sz, lim) ELSE pos[3]>>

\* the flags x1, y1, z1 of getToroidDistanceTo: which axes have a flipped image
FlipFlags(pos, sz, limit) ==
    LET o == getOutOfBounds(pos, <<1, 1, 1>>, sz, limit) IN
    <<IF pos[1] = o[1] THEN 0 ELSE 1,
      IF pos[2] = o[2] THEN 0 ELSE 1,
      IF pos[3] = o[3] THEN 0 ELSE 1>>

\* the check vectors the loops of getToroidDistanceTo run through
CheckVectors(flags) == (0..flags[1]) \X (0..flags[2]) \X (0..flags[3])

MinOf(T) == CHOOSE m \in T : \A n \in T : m <= n

\* a toroidal distance that looks at the images of the calling monad only
getToroidDistanceToOneSided(p1, p2, sz, limit) ==
    LET f1 == FlipFlags(p1, sz, limit)
        plain == distanceSq(p1, p2)
    IN IF f1 # <<0, 0, 0>>
       THEN MinOf({plain} \cup
                  {distanceSq(getOutOfBounds(p1, c1, sz, limit), p2) : c1 \in CheckVectors(f1)})
       ELSE plain

\* Monad.prototype.getToroidDistanceTo, as the square of the distance
getToroidDistanceTo(p1, p2, sz, limit) ==
    LET f1 == FlipFlags(p1, sz, limit)
        f2 == FlipFlags(p2, sz, limit)
        plain == distanceSq(p1, p2)
    IN IF f1 # <<0, 0, 0>> \/ f2 # <<0, 0, 0>>
       THEN MinOf({plain} \cup
                  {distanceSq(getOutOfBounds(p1, c1, sz, limit), getOutOfBounds(p2, c2, sz, limit)) :
                       c1 \in CheckVectors(f1), c2 \in CheckVectors(f2)})
       ELSE plain

\* what the loops of getToroidDistanceTo leave in the check vector of a monad
CheckLeft(flags, any) ==
    IF any THEN <<flags[1] + 1, flags[2] + 1, flags[3] + 1>> ELSE <<1, 1, 1>>

\* Monad.prototype.getToroidDistanceTo with what it writes: the check and oob
\* vectors of the two monads
ToroidDistance(S, this, other, sz, limit) ==
    LET p1 == S.monads[this].position
        p2 == S.monads[other].position
        f1 == FlipFlags(p1, sz, limit)
        f2 == FlipFlags(p2, sz, limit)
        any == f1 # <<0, 0, 0>> \/ f2 # <<0, 0, 0>>
    IN [S |-> [S EXCEPT !.monads[this].check = CheckLeft(f1, any),
                        !.monads[this].oob = getOutOfBounds(p1, f1, sz, limit),
                        !.monads[other].check = CheckLeft(f2, any),
                        !.monads[other].oob = getOutOfBounds(p2, f2, sz, limit)],
        distance |-> getToroidDistanceTo(p1, p2, sz, limit)]

\* Monad.prototype.checkEscape: esc tells that the calling monad has left the other
checkEscape(S, this, other) ==
    LET m == S.monads[this]
        o == S.monads[other]
        radi == m.radius + o.radius
    IN IF distanceSq(m.position, o.position) > radi * radi
       THEN IF /\ (m.zone.x # o.zone.x \/ m.zone.y # o.zone.y \/ m.zone.z # o.zone.z)
               /\ getToroidDistanceTo(m.position, o.position, size, size - Max(zoning, radi))
                      <= radi * radi
            THEN [S |-> S, esc |-> FALSE]
            ELSE [S |-> [S EXCEPT !.monads[this].countdown = 1], esc |-> TRUE]
       ELSE [S |-> S, esc |-> FALSE]

(***************************************************************************)
(* Zones: collision                                                        *)
(***************************************************************************)
\* a resolution that tries merge before bond
ResolveMergeFirst(S, this, other, mass, omass) ==
    LET toggle == controls.toggle IN
    IF toggle.freeze THEN freeze(S, this, other)
    ELSE IF toggle.merging \/ (toggle.quantaAbsorption /\ ((mass = 1) # (omass = 1)))
         THEN merge(S, this, other)
    ELSE IF toggle.bonding /\ omass > 1 THEN bond(S, this, other)
    ELSE [S |-> Log(bounce(S, this, other, TRUE), Event("bounce", this, other, 0, 0, 0)),
          self |-> FALSE]

\* the resolution of one accepted collision, first match wins
Resolve(S, this, other, mass, omass) ==
    LET toggle == controls.toggle IN
    IF toggle.freeze THEN freeze(S, this, other)
    ELSE IF toggle.bonding /\ omass > 1 THEN bond(S, this, other)
    ELSE IF toggle.merging \/ (toggle.quantaAbsorption /\ ((mass = 1) # (omass = 1)))
         THEN merge(S, this, other)
    ELSE [S |-> Log(bounce(S, this, other, TRUE), Event("bounce", this, other, 0, 0, 0)),
          self |-> FALSE]

\* a skip that lets candidates of negative countdown through
SkippedInertOnly(this, o, other) == this = other \/ o.radius = 0

\* whether the candidate is skipped before any distance is measured
Skipped(this, o, other) == this = other \/ o.countdown < 0 \/ o.radius = 0

\* collideInZone: the coloring of a candidate predicted to collide next update
Predict(S, this, other, oob, radi) ==
    LET m == S.monads[this]
        o == S.monads[other]
        near == radi + 2 * maxSpeed
    IN IF /\ oob = 0
          /\ distanceSq(m.position, o.position) < near * near
          /\ (controls.display.collision \/ getMass(o) = 1)
          /\ (~controls.toggle.bonding \/ getMass(o) = 1)
          /\ distanceSq(m.position, VAdd(o.position, o.velocity)) < radi * radi
       THEN [S EXCEPT !.monads[other].countdown = CollideCountdown]
       ELSE S

\* a distance check that measures the plain distance in wrapped zones too
OverlappingPlain(S, this, other, oob, radi) ==
    distanceSq(S.monads[this].position, S.monads[other].position) <= radi * radi

\* whether one of the distance checks of collideInZone finds the two overlapping
Overlapping(S, this, other, oob, radi) ==
    IF oob = 0
    THEN distanceSq(S.monads[this].position, S.monads[other].position) <= radi * radi
    ELSE getToroidDistanceTo(S.monads[this].position, S.monads[other].position,
                             size, size - oob) <= radi * radi

\* history: the two particles of an accepted collision, their countdowns, and
\* whether the candidate emitted the actor (1) or the actor the candidate (2)
Collide(S, this, other) ==
    LET m == S.monads[this]
        o == S.monads[other]
    IN Log(S, Event("collide", this, other, m.countdown, o.countdown,
                    IF other = m.parentIndex /\ o.born = m.parentBorn THEN 1
                    ELSE IF this = o.parentIndex /\ m.born = o.parentBorn THEN 2
                    ELSE 0))

\* Zones.prototype.collideInZone from entry v on; cell is a cell of the array, or
\* <<>> for the scan of the whole pool (zone = [max]); mass and radius are the
\* locals of the same name
RECURSIVE collideInZone(_, _, _, _, _, _, _)

\* the rest of the loop of collideInZone after a resolution
Resolved(r, this, cell, oob, v) ==
    IF r.self THEN r
    ELSE collideInZone(r.S, this, cell, oob, v + 1,
                       getMass(r.S.monads[this]), r.S.monads[this].radius)

collideInZone(S, this, cell, oob, v, mass, radius) ==
    IF v > (IF cell = <<>> THEN MAX ELSE S.array[cell][0]) THEN [S |-> S, self |-> FALSE]
    ELSE
    LET other == IF cell = <<>> THEN v - 1 ELSE S.array[cell][v]
        o == S.monads[other]
        omass == getMass(o)
        radi == radius + o.radius * (IF /\ ~controls.toggle.quantaCollide
                                        /\ controls.toggle.quantaRandCollide
                                        /\ mass = 1 /\ omass = 1 THEN 2 ELSE 1)
    IN IF Skipped(this, o, other)
       THEN collideInZone(S, this, cell, oob, v + 1, mass, radius)
       ELSE IF \/ ~Overlapping(S, this, other, oob, radi)
               \/ (controls.toggle.bonding /\ IndexOf(S.monads[this].bonds, other) # 0)
       THEN collideInZone(Predict(S, this, other, oob, radi), this, cell, oob, v + 1,
                          mass, radius)
       ELSE Resolved(Resolve(Collide(Predict(S, this, other, oob, radi), this, other),
                             this, other, mass, omass),
                     this, cell, oob, v)

\* the crossover flags of checkCollisions for one axis: <<low, high>>
Crossover(pos, radius, x) ==
    <<IF pos - radius <= x * zoning - size THEN -1 ELSE 0,
      IF pos + radius >= (x + 1) * zoning - size THEN 1 ELSE 0>>

\* a search of every zone around the particle once one face is crossed
SearchedAround(cross, dif) == TRUE

\* whether the zone at offset dif is searched by a particle with the given crossover
Searched(cross, dif) ==
    \A k \in 1..3 : dif[k] # 0 => (cross[k][1] = dif[k] \/ cross[k][2] = dif[k])

\* a zone coordinate wrapped around the toroid
WrapZone(xi) == IF xi < 0 THEN length + xi ELSE IF xi >= length THEN xi - length ELSE xi

\* the k-th offset, in the order of the three nested loops of checkCollisions
Offset(k, crosses) ==
    LET n == 2 * crosses + 1 IN
    <<(k \div (n * n)) - crosses, ((k \div n) % n) - crosses, (k % n) - crosses>>

\* the loops of checkCollisions over the zones around <<x, y, z>>, from offset k on
RECURSIVE ZoneLoop(_, _, _, _, _, _)
\* the rest of the loops after a zone was searched
Searching(r, this, xyz, cross, crosses, k) ==
    IF r.self THEN r ELSE ZoneLoop(r.S, this, xyz, cross, crosses, k + 1)

\* the radius collideInZone starts with
Reach(S, this) ==
    S.monads[this].radius * (IF /\ ~controls.toggle.quantaCollide
                                /\ controls.toggle.quantaRandCollide
                                /\ getMass(S.monads[this]) = 1 THEN 2 ELSE 1)

ZoneLoop(S, this, xyz, cross, crosses, k) ==
    IF k >= (2 * crosses + 1) * (2 * crosses + 1) * (2 * crosses + 1)
    THEN [S |-> S, self |-> FALSE]
    ELSE
    LET dif == Offset(k, crosses)
        xi == <<xyz[1] + dif[1], xyz[2] + dif[2], xyz[3] + dif[3]>>
        x2 == <<WrapZone(xi[1]), WrapZone(xi[2]), WrapZone(xi[3])>>
        oob == zoning * crosses * (IF crosses <= 1 THEN 1 ELSE 2)
    IN IF crosses = 1 /\ ~Searched(cross, dif)
       THEN ZoneLoop(S, this, xyz, cross, crosses, k + 1)
       ELSE Searching(collideInZone(S, this, x2, IF xi # x2 THEN oob ELSE 0, 1,
                                    getMass(S.monads[this]), Reach(S, this)),
                      this, xyz, cross, crosses, k)

\* Zones.prototype.checkCollisions
checkCollisions(S, this) ==
    LET m == S.monads[this]
        radius == m.radius
        xyz == <<m.zone.x, m.zone.y, m.zone.z>>
        halves == (2 * radius) \div zoning
        side == 3 + 2 * halves
        cross == [k \in 1..3 |-> Crossover(m.position[k], radius, xyz[k])]
    IN IF 2 * radius >= zoning
       THEN IF side >= length \/ side * side * side >= MAX
            THEN collideInZone(S, this, <<>>, size, 1, getMass(m), Reach(S, this))
            ELSE ZoneLoop(S, this, xyz, cross, halves + 1, 0)
       ELSE ZoneLoop(S, this, xyz, cross,
                     IF \E k \in 1..3 : cross[k] # <<0, 0>> THEN 1 ELSE 0, 0)

\* the cells whose lists checkCollisions hands to collideInZone for the particle
Visited(S, this) ==
    LET m == S.monads[this]
        xyz == <<m.zone.x, m.zone.y, m.zone.z>>
        halves == (2 * m.radius) \div zoning
        side == 3 + 2 * halves
        cross == [k \in 1..3 |-> Crossover(m.position[k], m.radius, xyz[k])]
        crosses == IF 2 * m.radius >= zoning THEN halves + 1
                   ELSE IF \E k \in 1..3 : cross[k] # <<0, 0>> THEN 1 ELSE 0
        n == 2 * crosses + 1
    IN IF 2 * m.radius >= zoning /\ (side >= length \/ side * side * side >= MAX)
       THEN Cells
       ELSE {<<WrapZone(xyz[1] + dif[1]), WrapZone(xyz[2] + dif[2]), WrapZone(xyz[3] + dif[3])>> :
                 dif \in {d \in {Offset(k, crosses) : k \in 0..(n * n * n - 1)} :
                              crosses = 1 => Searched(cross, d)}}

(***************************************************************************)
(* Monad: emission draw and bond maintenance                               *)
(***************************************************************************)
\* the counts ceil(ran^uniformity * maximum) that a draw ran < unstable^(1/decayRate)
\* can give (uniformity 2.0, decayRate 0.5), 0 being the draw that emits nothing
EmissionDraws(mass) ==
    LET emission == controls.emission IN
    {0} \cup {k \in 1..emission.maximum :
                 LET a == emission.radiation - emission.stability
                     b == mass - emission.stability
                 IN (k - 1) * a * a * a * a < emission.maximum * b * b * b * b}

\* an emission draw that is not capped by the mass of the particle
checkEmissionUncapped(S, idx, draw) ==
    LET mass == getMass(S.monads[idx]) IN
    IF mass <= controls.emission.stability \/ mass < 2 THEN S
    ELSE [S EXCEPT !.monads[idx].emit = @ + draw]

\* Monad.prototype.checkEmission; draw is the count the random number gives
checkEmission(S, idx, draw) ==
    LET mass == getMass(S.monads[idx]) IN
    IF mass <= controls.emission.stability \/ mass < 2 THEN S
    ELSE [S EXCEPT !.monads[idx].emit = Min(@ + draw, mass - 1)]

\* what checkEmission returns: the quanta to emit, 0 for false
EmissionOwed(S, idx) ==
    LET mass == getMass(S.monads[idx]) IN
    IF mass <= controls.emission.stability \/ mass < 2 THEN 0 ELSE S.monads[idx].emit

\* absMin of statistics.js
absMin(a, b) == IF Abs(a) < Abs(b) THEN a ELSE b

\* dist / radi > breakRatio = 1 + granularity, granularity = 0.001
TooFar(distSq, radi) == distSq > radi * radi + (2001 * radi * radi) \div 1000000

\* dist / radi < mergeRatio, mergeRatio in hundredths
TooClose(distSq, radi) ==
    LET r == controls.bonding.mergeRatio * radi IN distSq * 10000 < r * r

\* Monad.prototype.checkBond
BondDistance(pos, opos, radi) ==
    IF TooFar(distanceSq(pos, opos), radi)
    THEN getToroidDistanceTo(pos, opos, size,
                             size - Max(zoning, (radi * 1001 * maxSpeed) \div (1000 * Unit)))
    ELSE distanceSq(pos, opos)

\* the nudge bounded by the mass-weighted speed of the two
Bounded(check, speed) ==
    IF ISqrt(VDot(check, check)) > 0 /\ speed < ISqrt(VDot(check, check))
    THEN VDiv(VScale(check, speed), ISqrt(VDot(check, check)))
    ELSE check

\* the nudge of checkBond for the other monad; dist and radi as in checkBond
Nudge(m, o, oob, push, dist, radi) ==
    Bounded(IF push
            THEN <<TDiv(absMin(o.position[1] - m.position[1], oob[1] - m.position[1]) * radi, dist),
                   TDiv(absMin(o.position[2] - m.position[2], oob[2] - m.position[2]) * radi, dist),
                   TDiv(absMin(o.position[3] - m.position[3], oob[3] - m.position[3]) * radi, dist)>>
            ELSE <<TDiv(absMin(m.position[1] - o.position[1], m.position[1] - oob[1]) * (dist - radi), radi),
                   TDiv(absMin(m.position[2] - o.position[2], m.position[2] - oob[2]) * (dist - radi), radi),
                   TDiv(absMin(m.position[3] - o.position[3], m.position[3] - oob[3]) * (dist - radi), radi)>>,
            (ISqrt(VDot(o.velocity, o.velocity)) * getMass(o)
             + ISqrt(VDot(m.velocity, m.velocity)) * getMass(m)) \div (getMass(m) + getMass(o)))

\* checkBond once the distance is taken
BondAt(S, this, other, distSq, radi) ==
    LET bonding == controls.bonding
        push == bonding.pushOut /\ distSq < radi * radi
    IN IF S.monads[other].radius = 0 THEN unbond(S, this, other, FALSE)
       ELSE IF TooClose(distSq, radi) THEN unbond(S, this, other, controls.toggle.merging)
       ELSE IF bonding.allowBreak /\ TooFar(distSq, radi) THEN unbond(S, this, other, FALSE)
       ELSE IF push \/ (bonding.pullIn /\ distSq > radi * radi)
            THEN IF push /\ distSq = 0
                 THEN \* 0 * (1 / 0): the position becomes NaN and addToZone throws
                      [S |-> Log(S, Event("crash", this, other, 0, 0, 0)), self |-> TRUE]
                 ELSE [S |-> Log(checkBounds(
                                     [S EXCEPT !.monads[other].position =
                                          VAdd(@, Nudge(S.monads[this], S.monads[other],
                                                        getOutOfBounds(S.monads[other].position,
                                                                       <<1, 1, 1>>, size,
                                                                       size - zoning),
                                                        push, ISqrt(distSq), radi))],
                                     other),
                                 Event("nudge", this, other, 0, 0, 0)),
                       self |-> FALSE]
       ELSE [S |-> S, self |-> FALSE]

\* Monad.prototype.checkBond
checkBond(S, this, other) ==
    BondAt(S, this, other,
           BondDistance(S.monads[this].position, S.monads[other].position,
                        S.monads[this].radius + S.monads[other].radius),
           S.monads[this].radius + S.monads[other].radius)

\* the loop of update over the bonds of the particle, from bond b (0-based) on
RECURSIVE BondLoop(_, _, _)
\* the rest of the loop after a bond was checked
Bonded(r, this, b) == IF r.self THEN r ELSE BondLoop(r.S, this, b + 1)

BondLoop(S, this, b) ==
    IF b >= Len(S.monads[this].bonds) THEN [S |-> S, self |-> FALSE]
    ELSE Bonded(checkBond(S, this, S.monads[this].bonds[b + 1]), this, b)

(***************************************************************************)
(* World generation                                                        *)
(***************************************************************************)
\* the default toggles of controls.dynamic.toggle (quantaCollide as in stress mode)
Toggle ==
    [attractRepulse |-> TRUE, emission |-> TRUE, displacement |-> TRUE,
     reabsorption |-> TRUE, collision |-> TRUE, freeze |-> FALSE, bonding |-> TRUE,
     merging |-> TRUE, quantaAbsorption |-> TRUE, quantaCollide |-> TRUE,
     quantaRandCollide |-> FALSE]

\* the defaults of controls.dynamic.bonding; mergeRatio in hundredths
Bonding ==
    [bounce |-> TRUE, pullIn |-> FALSE, pushOut |-> TRUE, allowBreak |-> TRUE,
     mergeRatio |-> 0]

\* the defaults of controls.visual.display
Display == [bonding |-> TRUE, collision |-> FALSE, radiation |-> FALSE]

\* controls.dynamic.emission: stability, radiation = max(2, MAXIMUM / 16) and the
\* given maximum of quanta per draw
Emission(most) == [stability |-> 1, radiation |-> 2, maximum |-> most]

Controls(toggle, enforce, most) ==
    [toggle |-> toggle, bonding |-> Bonding, display |-> Display,
     emission |-> Emission(most), enforce |-> enforce]

\* a generated particle: composition, position and velocity
Gen(att, rep, pos, vel) ==
    [attractons |-> att, repulsons |-> rep, position |-> pos, velocity |-> vel]

\* the generation inputs explored: the settings and the particles given mass
Worlds ==
    { [controls |-> Controls(Toggle, FALSE, 1),
       gen |-> <<Gen(3, 0, <<0, 0, 0>>, ZeroVec), Gen(1, 2, <<5 * Unit, 0, 0>>, ZeroVec)>>],
      [controls |-> Controls(Toggle, FALSE, 1),
       gen |-> <<Gen(3, 0, <<0, 0, 0>>, ZeroVec), Gen(0, 2, <<2 * Unit, 0, 0>>, ZeroVec)>>] }

\* generation inputs that fill the time ring: two heavy monads out of each other's
\* reach, and a light monad heading for a heavier one past a lone quantum
RingWorlds ==
    { [controls |-> Controls(Toggle, FALSE, 1),
       gen |-> <<Gen(5, 0, <<-3 * Unit, -3 * Unit, 0>>, ZeroVec),
                 Gen(5, 0, <<-3 * Unit, 3 * Unit, 0>>, ZeroVec)>>],
      [controls |-> Controls(Toggle, FALSE, 1),
       gen |-> <<Gen(2, 0, <<0, 0, 0>>, <<0, maxSpeed, 0>>),
                 Gen(0, 2, <<Unit, 3 * Unit, 0>>, ZeroVec),
                 Gen(1, 0, <<4 * Unit, 3 * Unit, 0>>, ZeroVec)>>] }

\* Zones constructor: empty zones, free slots and time slots
Zones ==
    [monads |-> [i \in Indices |-> Monad],
     array |-> [c \in Cells |-> [k \in 0..MAX |-> IF k = 0 THEN 0 ELSE -1]],
     freeslots |-> [i \in Indices |-> -1], free |-> 0,
     timeslots |-> [i \in Indices |-> -1], timeOld |-> 0, timeNew |-> 0,
     particles |-> MAX, clock |-> 0, events |-> <<>>]

\* the Monad constructor for a particle given mass: initializeMass,
\* initializePosition, initializeVelocity
NewMonad(S, idx, g) ==
    LET S1 == updateRadius([S EXCEPT !.monads[idx].attractons = g.attractons,
                                     !.monads[idx].repulsons = g.repulsons,
                                     !.monads[idx].born = S.clock + 1,
                                     !.clock = S.clock + 1], idx)
        S2 == updateZone([S1 EXCEPT !.monads[idx].position = g.position], idx)
    IN [S2 EXCEPT !.monads[idx].velocity = g.velocity]

\* Emergence.prototype.initializeParticles, from pool index idx on
RECURSIVE initializeParticles(_, _, _)
initializeParticles(S, gen, idx) ==
    IF idx >= MAX THEN S
    ELSE IF idx < Len(gen)
         THEN initializeParticles(NewMonad(S, idx, gen[idx + 1]), gen, idx + 1)
         ELSE initializeParticles(addFreeSlot(S, idx), gen, idx + 1)

\* the state after construction, for one of the generation inputs
Generated(W) ==
    \E w \in W :
        LET S == initializeParticles(Zones, w.gen, 0) IN
        /\ monads = S.monads
        /\ array = S.array
        /\ freeslots = S.freeslots
        /\ free = S.free
        /\ timeslots = S.timeslots
        /\ timeOld = S.timeOld
        /\ timeNew = S.timeNew
        /\ particles = S.particles
        /\ clock = S.clock
        /\ events = <<>>
        /\ controls = w.controls
        /\ time = [first |-> TRUE, subsequent |-> FALSE]
        /\ tick = 0
        /\ p = MAX
        /\ phase = "idle"
        /\ begun = [i \in Indices |-> Monad]

Init == Generated(Worlds)

(***************************************************************************)
(* The update loop                                                         *)
(***************************************************************************)
\* run of Emergence.prototype.update
Run == ~time.first /\ time.subsequent

\* buffer of Emergence.prototype.update
buffer ==
    IF controls.enforce THEN 0
    ELSE IF MAX <= 8 * controls.emission.maximum THEN (MAX + 7) \div 8
    ELSE controls.emission.maximum

\* velocities of speed maxSpeed a new quantum can be given
EmitVelocities == {<<maxSpeed, 0, 0>>}

\* go on with the next particle of the loop, or end the update
Continue ==
    /\ UNCHANGED <<controls, time, begun>>
    /\ IF p + 1 >= MAX
       THEN p' = MAX /\ phase' = "idle" /\ tick' = tick + 1
       ELSE p' = p + 1 /\ phase' = "start" /\ tick' = tick

\* stay with the particle, at another position of its processing
Goto(ph) ==
    /\ UNCHANGED <<controls, time, tick, p, begun>>
    /\ phase' = ph

\* the countdowns of a particle allowed to interact
Countdowns(S, idx) ==
    LET m == S.monads[idx]
        md1 == IF m.mountdown > 0 THEN m.mountdown - 1 ELSE m.mountdown
        cd1 == IF m.countdown > 0 /\ m.countdown # Infinity THEN m.countdown - 1 ELSE m.countdown
        reset == m.countdown > 0 /\ cd1 = 0
    IN [S EXCEPT !.monads[idx].countdown = cd1,
                 !.monads[idx].mountdown = IF reset THEN 0 ELSE md1]

\* update while the physics does not run yet: the loop changes no particle
UpdateNoRun ==
    /\ phase = "idle" /\ ~Run /\ tick < MaxTick
    /\ time' = [time EXCEPT !.first = FALSE]
    /\ tick' = tick + 1
    /\ events' = <<>>
    /\ UNCHANGED <<monads, array, freeslots, free, timeslots, timeOld, timeNew, particles,
                   controls, p, phase, clock, begun>>

\* the statistics monitor, running between updates, lets the physics start
MonitorUpdate ==
    /\ phase = "idle" /\ ~time.first /\ ~time.subsequent
    /\ time' = [time EXCEPT !.subsequent = TRUE]
    /\ events' = <<>>
    /\ UNCHANGED <<monads, array, freeslots, free, timeslots, timeOld, timeNew, particles,
                   controls, tick, p, phase, clock, begun>>

\* update: enter the loop over the particles
BeginUpdate ==
    /\ phase = "idle" /\ Run /\ tick < MaxTick
    /\ p' = 0 /\ phase' = "start"
    /\ events' = <<>>
    /\ begun' = monads
    /\ UNCHANGED <<monads, array, freeslots, free, timeslots, timeOld, timeNew, particles,
                   controls, time, tick, clock>>

\* update, one particle: the escape check of a quantum of negative countdown
Escape(S, idx) ==
    IF S.monads[idx].countdown < 0
    THEN checkEscape(S, idx, S.monads[idx].parentIndex)
    ELSE [S |-> S, esc |-> TRUE]

\* the countdowns of the particle, when it is allowed to interact
Counted(e, idx) == IF e.esc THEN [S |-> Countdowns(e.S, idx), esc |-> TRUE] ELSE e

\* the outcome of the collision phase; eligible tells whether emission and bonds follow
Collided(r) == [S |-> r.S, self |-> r.self, eligible |-> TRUE]

\* update, one particle: the collision phase of a particle allowed to interact
Collisions(e, idx, draw) ==
    IF /\ e.esc
       /\ \/ controls.toggle.quantaCollide
          \/ getMass(e.S.monads[idx]) > 1
          \/ (controls.toggle.quantaRandCollide /\ draw)
    THEN IF controls.toggle.collision
         THEN Collided(checkCollisions(e.S, idx))
         ELSE [S |-> e.S, self |-> FALSE, eligible |-> TRUE]
    ELSE [S |-> e.S, self |-> FALSE, eligible |-> FALSE]

\* a collision phase whose outcome does not end the processing of the particle
InteractedGoesOn(r) ==
    /\ Store(r.S)
    /\ IF r.eligible THEN Goto("emission") ELSE Goto("move")

\* where the processing of the particle goes on after the collision phase
Interacted(r) ==
    /\ Store(r.S)
    /\ IF r.self THEN Continue
       ELSE IF r.eligible THEN Goto("emission")
       ELSE Goto("move")

\* update, one particle: escape check, countdowns and collision phase
Interact ==
    /\ phase = "start"
    /\ \E draw \in BOOLEAN :
        /\ \/ draw = FALSE
           \/ /\ controls.toggle.quantaRandCollide
              /\ ~controls.toggle.quantaCollide
              /\ getMass(monads[p]) = 1
        /\ IF monads[p].radius = 0 THEN Store(Cur) /\ Continue
           ELSE Interacted(Collisions(Counted(Escape(Cur, p), p), p, draw))

\* where the processing of the particle goes on after the emission draw
Drawn(S) ==
    /\ Store(S)
    /\ IF EmissionOwed(S, p) # 0 THEN Goto("emit") ELSE Goto("bond")

\* update, one particle: the emission draw
CheckEmission ==
    /\ phase = "emission"
    /\ IF controls.toggle.emission /\ (controls.toggle.displacement \/ free > buffer)
       THEN \E draw \in EmissionDraws(getMass(monads[p])) :
               /\ \/ draw = 0
                  \/ ~(getMass(monads[p]) <= controls.emission.stability \/ getMass(monads[p]) < 2)
               /\ Drawn(checkEmission(Cur, p, draw))
       ELSE Store(Cur) /\ Goto("bond")

\* an emission loop that takes another turn whatever the particle still owes
EmittedAgain(S) ==
    /\ Store(S)
    /\ Goto("emit")

\* where the processing of the particle goes on after one emission
Emitted(S) ==
    /\ Store(S)
    /\ IF S.monads[p].emit # 0 THEN Goto("emit") ELSE Goto("bond")

\* an emission loop that gives the particle up when no slot is returned
EmittingAbandons(r, attracton, vel) ==
    IF r.hang THEN Store(r.S) /\ Goto("hung")
    ELSE IF r.slot = -1 THEN Store(r.S) /\ Continue
    ELSE Emitted(emit(r.S, p, r.slot, attracton, vel))

\* one turn of the emission loop, given what nextFreeSlot returned
Emitting(r, attracton, vel) ==
    IF r.hang THEN Store(r.S) /\ Goto("hung")
    ELSE IF r.slot = -1 THEN Store(r.S) /\ Goto("bond")
    ELSE Emitted(emit(r.S, p, r.slot, attracton, vel))

\* update, one particle: one turn of the emission loop
Emit ==
    /\ phase = "emit"
    /\ \E attracton \in BOOLEAN, vel \in EmitVelocities :
        /\ attracton \/ (monads[p].attractons > 0 /\ monads[p].repulsons > 0)
        /\ Emitting(nextFreeSlot(Cur, buffer), attracton, vel)

\* where the processing of the particle goes on after bond maintenance
BondsChecked(r) ==
    /\ Store(r.S)
    /\ IF \E k \in 1..Len(r.S.events) : r.S.events[k].kind = "crash" THEN Goto("crashed")
       ELSE IF r.self THEN Continue
       ELSE Goto("move")

\* update, one particle: bond maintenance
CheckBonds ==
    /\ phase = "bond"
    /\ IF controls.toggle.bonding /\ Len(monads[p].bonds) > 0
       THEN BondsChecked(BondLoop(Cur, p, 0))
       ELSE Store(Cur) /\ Goto("move")

\* update, one particle: countdown upkeep
Upkeep(S, idx) ==
    [S EXCEPT !.monads[idx].mountdown = IF @ < 0 THEN 0 ELSE @,
              !.monads[idx].countdown = IF @ = 0 /\ getMass(S.monads[idx]) > 1 THEN 1 ELSE @]

\* update, one particle: countdown upkeep and integration
Move ==
    /\ phase = "move"
    /\ Store(updatePosition(Upkeep(Cur, p), p))
    /\ Continue

\* Emergence.prototype.clearQuanta, from pool index idx on
RECURSIVE clearQuanta(_, _)
clearQuanta(S, idx) ==
    IF idx >= MAX THEN S
    ELSE clearQuanta(IF getMass(S.monads[idx]) = 1 THEN nullify(S, idx) ELSE S, idx + 1)

\* the user clears the quanta between two updates
ClearQuanta ==
    /\ phase = "idle" /\ tick < MaxTick
    /\ \E i \in Indices : getMass(monads[i]) = 1
    /\ Store(Log(clearQuanta(Cur, 0), Event("clear", -1, -1, 0, 0, 0)))
    /\ UNCHANGED <<controls, time, tick, p, phase, begun>>

Next ==
    \/ UpdateNoRun
    \/ MonitorUpdate
    \/ BeginUpdate
    \/ Interact
    \/ CheckEmission
    \/ Emit
    \/ CheckBonds
    \/ Move
    \/ ClearQuanta

Spec == Init /\ [][Next]_vars

\* the same program, generated so that the time ring fills and wraps
InitRing == Generated(RingWorlds)

SpecRing == InitRing /\ [][Next]_vars

\* generation inputs with particles near the faces of their zones: two overlapping
\* monads of mass 3 in zones that differ on two axes, on either side of the face
\* between the zones 1 and 2; two monads of mass 3 that overlap through a face of
\* the world; and, with bonding off, two overlapping monads of mass 2 in one zone
\* and the first pair again with emission off
CrossWorlds ==
    LET face == 2 * zoning - size
        radius == radiusSphere(3, density)
    IN { [controls |-> Controls(Toggle, FALSE, 1),
          gen |-> <<Gen(3, 0, <<face - 1, face - radius - 1, 0>>, ZeroVec),
                    Gen(3, 0, <<face + radius + 1, face, 0>>, ZeroVec)>>],
         [controls |-> Controls(Toggle, FALSE, 1),
          gen |-> <<Gen(3, 0, <<size - Unit \div 2, 0, 0>>, ZeroVec),
                    Gen(3, 0, <<Unit \div 2 - size, 0, 0>>, ZeroVec)>>],
         [controls |-> Controls([Toggle EXCEPT !.bonding = FALSE], FALSE, 1),
          gen |-> <<Gen(2, 0, <<0, 0, 0>>, ZeroVec), Gen(2, 0, <<Unit, 0, 0>>, ZeroVec)>>],
         [controls |-> Controls([Toggle EXCEPT !.bonding = FALSE, !.emission = FALSE],
                                FALSE, 1),
          gen |-> <<Gen(3, 0, <<face - 1, face - radius - 1, 0>>, ZeroVec),
                    Gen(3, 0, <<face + radius + 1, face, 0>>, ZeroVec)>>],
         [controls |-> Controls([Toggle EXCEPT !.freeze = TRUE], FALSE, 1),
          gen |-> <<Gen(2, 0, <<0, 0, 0>>, <<Unit, 0, 0>>),
                    Gen(2, 0, <<Unit, 0, 0>>, <<0, Unit, 0>>)>>],
         [controls |-> [Controls(Toggle, FALSE, 1) EXCEPT !.bonding.mergeRatio = 50],
          gen |-> <<Gen(2, 0, <<0, 0, 0>>, ZeroVec), Gen(3, 0, <<Unit, 0, 0>>, ZeroVec)>>],
         [controls |-> Controls([Toggle EXCEPT !.bonding = FALSE, !.merging = FALSE], FALSE, 1),
          gen |-> <<Gen(2, 0, <<0, 0, 0>>, <<Unit, 0, 0>>),
                    Gen(2, 0, <<2 * Unit, 0, 0>>, <<-Unit, 0, 0>>)>>],
         [controls |-> [Controls([Toggle EXCEPT !.merging = FALSE], FALSE, 1)
                           EXCEPT !.bonding.mergeRatio = 50],
          gen |-> <<Gen(2, 0, <<0, 0, 0>>, ZeroVec), Gen(3, 0, <<Unit, 0, 0>>, ZeroVec)>>],
         [controls |-> Controls(Toggle, FALSE, 1),
          gen |-> <<Gen(3, 0, <<0, 0, 0>>, ZeroVec), Gen(1, 0, <<Unit, 0, 0>>, ZeroVec),
                    Gen(1, 0, <<0, Unit, 0>>, ZeroVec)>>] }

\* the same program, generated with particles that reach across zone faces
InitCross == Generated(CrossWorlds)

SpecCross == InitCross /\ [][Next]_vars

\* generation inputs for the reserve of free slots: with displacement off and up
\* to two quanta per emission draw (emission.maximum of the test settings), two
\* monads of mass 3 out of each other's reach; and with the default settings, two
\* monads of mass 2 on their own, a monad of mass 3 and a quantum heading for it
ReserveWorlds ==
    { [controls |-> Controls([Toggle EXCEPT !.displacement = FALSE], FALSE, 2),
       gen |-> <<Gen(3, 0, <<-3 * Unit, -3 * Unit, 0>>, ZeroVec),
                 Gen(3, 0, <<-3 * Unit, 3 * Unit, 0>>, ZeroVec)>>],
      [controls |-> Controls(Toggle, FALSE, 1),
       gen |-> <<Gen(2, 0, <<-3 * Unit, -3 * Unit, 0>>, ZeroVec),
                 Gen(2, 0, <<-3 * Unit, 3 * Unit, 0>>, ZeroVec),
                 Gen(3, 0, <<Unit, 0, 0>>, ZeroVec),
                 Gen(1, 0, <<5 * Unit, 0, 0>>, <<-maxSpeed, 0, 0>>)>>] }

\* the same program, generated so that emission runs into the reserve
SpecReserve == Generated(ReserveWorlds) /\ [][Next]_vars

\* the inputs of the distance measurement: two particles anywhere in the world,
\* the boundary and the margin handed to getToroidDistanceTo
ToroidWorlds ==
    LET places == {-size, Unit \div 2, size - 1} \X {-size, Unit \div 2} \X {0, size - 1}
    IN { [controls |-> Controls(Toggle, FALSE, 1),
          gen |-> <<Gen(2, 0, a, ZeroVec), Gen(2, 0, b, ZeroVec)>>] : a, b \in places }

\* one call this.getToroidDistanceTo(other, sz, limit) between two updates
MeasureToroid ==
    /\ phase = "idle"
    /\ \E this \in Indices, other \in Indices, sz \in {zoning, size},
          limit \in {-Unit, 0, size - zoning, size} :
          /\ this # other
          /\ monads[this].radius > 0 /\ monads[other].radius > 0
          /\ Store(Log(ToroidDistance(Cur, this, other, sz, limit).S,
                       Event("toroid", this, other,
                             ToroidDistance(Cur, this, other, sz, limit).distance, sz, limit)))
    /\ UNCHANGED <<controls, time, tick, p, phase, begun>>

\* the distance measurement on its own, over generated pairs of particles
SpecToroid == Generated(ToroidWorlds) /\ [][MeasureToroid]_vars

(***************************************************************************)
(* Properties                                                              *)
(***************************************************************************)
Live(i) == monads[i].radius > 0

\* the places <<cell, k>> of the valid ranges of the cell lists that hold index i
Places(i) == {ck \in Cells \X (1..MAX) : ck[2] <= array[ck[1]][0] /\ array[ck[1]][ck[2]] = i}

\* the kinds of the events of the last step
Happened(kind) == \E k \in 1..Len(events) : events[k].kind = kind

\* C1: every live particle (radius > 0) records a cell and an index i within the
\* cell's count, and the cell's entry i is the particle's pool index
CellIndexPointsBack ==
    \A i \in Indices :
        Live(i) =>
            LET zone == monads[i].zone IN
            /\ CellOf(zone) \in Cells
            /\ 1 <= zone.i /\ zone.i <= array[CellOf(zone)][0]
            /\ array[CellOf(zone)][zone.i] = i

\* a particle was taken out of a cell from before its last entry, which moved down
CellIndexWitness ==
    \E i \in Indices, c \in Cells :
        /\ Live(i) /\ CellOf(monads[i].zone) = c
        /\ monads[i].zone.i = 1 /\ array[c][0] = 1 /\ array[c][2] = i

OnFreeStack(i) == {k \in 0..(free - 1) : freeslots[k] = i}
InRing(i) == {t \in Indices : timeslots[t] = i}

MergeSums ==
    \A k \in 1..Len(events) :
        events[k].kind = "merge" =>
            /\ k < Len(events)
            /\ events[k + 1].kind = "merged"
            /\ events[k + 1].a = events[k].a /\ events[k + 1].b = events[k].b
            /\ events[k + 1].x = events[k].x
            /\ events[k + 1].y = events[k].y
            /\ events[k + 1].z = 0
            /\ events[k + 1].x + events[k + 1].y > 0

\* a merge of two particles that both had repulsons and attractons between them
MergeWitness ==
    \E k \in 1..Len(events) :
        events[k].kind = "merged" /\ events[k].x > 0 /\ events[k].y > 1

\* C10: no collision is resolved between a quantum of negative countdown and its
\* parent, whichever of the two is the acting particle
NoCollisionBeforeEscape ==
    \A k \in 1..Len(events) :
        events[k].kind = "collide" =>
            /\ ~(events[k].z = 1 /\ events[k].x < 0)
            /\ ~(events[k].z = 2 /\ events[k].y < 0)

\* the parent has run its collision phase while a quantum it emitted in an
\* earlier update still overlaps it with a negative countdown
EscapeWitness ==
    /\ phase = "emission"
    /\ \E q \in Indices :
          /\ monads[q].countdown < 0
          /\ monads[q].parentIndex = p /\ monads[q].parentBorn = monads[p].born
          /\ LET radi == monads[q].radius + monads[p].radius
             IN distanceSq(monads[q].position, monads[p].position) <= radi * radi

\* C5: the bond relation is symmetric: j is in the bond list of i exactly when i is
\* in the bond list of j
BondSymmetric ==
    \A i, j \in Indices :
        IndexOf(monads[i].bonds, j) # 0 <=> IndexOf(monads[j].bonds, i) # 0

\* C6: at the end of an update, the stored radius of every live particle is
\* radiusSphere of its mass
RadiusCurrent ==
    phase = "idle" =>
        \A i \in Indices :
            getMass(monads[i]) > 0 =>
                monads[i].radius = radiusSphere(getMass(monads[i]), density)

\* C8: an eviction takes the quantum emitted earliest among the live quanta that
\* the time ring tracks
EvictsOldest ==
    \A k \in 1..Len(events) :
        events[k].kind = "evict" => events[k].x = events[k].y

\* C9: the unit of an evicted quantum goes, with its polarity, to the particle that
\* emitted it when that particle is still there with a mass above 1, and to no
\* particle otherwise
ReabsorbedByEmitter ==
    \A k \in 1..Len(events) :
        /\ events[k].kind = "reabsorb" =>
              /\ events[k].x = 1
              /\ k > 1 /\ events[k - 1].kind = "evict"
              /\ events[k].y = (IF events[k - 1].z = 1 THEN 1 ELSE 0)
              /\ events[k].z = (IF events[k - 1].z = 1 THEN 0 ELSE 1)
        /\ (events[k].kind = "discard" /\ controls.toggle.reabsorption) => events[k].x = 0

\* C11: when a particle starts its collision phase with collision enabled, for
\* every other live particle that overlaps it, both escaped and not bonded to each
\* other, the query of one of the two visits the cell that contains the other
OverlapVisited ==
    (phase = "start" /\ controls.toggle.collision) =>
        \A q \in Indices :
            (/\ q # p /\ Live(p) /\ Live(q)
             /\ monads[p].countdown >= 0 /\ monads[q].countdown >= 0
             /\ IndexOf(monads[p].bonds, q) = 0 /\ IndexOf(monads[q].bonds, p) = 0
             /\ LET radi == monads[p].radius + monads[q].radius
                IN getToroidDistanceTo(monads[p].position, monads[q].position, size, 0)
                       <= radi * radi)
            => \/ CellOf(monads[q].zone) \in Visited(Cur, p)
               \/ CellOf(monads[p].zone) \in Visited(Cur, q)

EqualPairMerged ==
    \A i, j \in Indices :
        (/\ phase = "idle"
         /\ controls.toggle.collision /\ controls.toggle.merging
         /\ ~controls.toggle.bonding
         /\ i < j
         /\ \A k \in Indices : begun[k].radius > 0 <=> k \in {i, j}
         /\ getMass(begun[i]) = getMass(begun[j])
         /\ LET radi == begun[i].radius + begun[j].radius
            IN distanceSq(begun[i].position, begun[j].position) < radi * radi)
        => \E s \in Indices :
              /\ Live(s)
              /\ getMass(monads[s]) = getMass(begun[i]) + getMass(begun[j])
              /\ \A k \in Indices \ {s} : ~Live(k) /\ OnFreeStack(k) # {}

\* C14: the free stack is last in, first out: no step changes an entry below the
\* top of the stack, and a slot acquired is the one on top of the stack, which is
\* the slot of the quantum evicted by the same acquisition when there is one
FreeStackLIFO ==
    [][/\ \A k \in 0..(Min(free, free') - 1) : freeslots'[k] = freeslots[k]
       /\ \A e \in 1..Len(events') :
             events'[e].kind = "acquire" =>
                 IF \E v \in 1..Len(events') : events'[v].kind = "evict"
                 THEN \E v \in 1..Len(events') :
                         events'[v].kind = "evict" /\ events'[v].a = events'[e].a
                 ELSE events'[e].a = freeslots[free - 1]]_vars

\* a slot released by an eviction was acquired by the same call, above other
\* entries of the free stack
FreeStackWitness ==
    /\ free > 0
    /\ \E e, v \in 1..Len(events) :
          /\ events[v].kind = "evict" /\ events[e].kind = "acquire"
          /\ events[v].a = events[e].a

\* C15 as stated: a turn of the emission loop gets a slot whenever the free stack
\* is not empty, and with displacement off it gets none only when the free stack
\* is empty
AcquiresWhenNonEmpty ==
    [][phase = "emit" =>
          LET acquired == \E e \in 1..Len(events') : events'[e].kind = "acquire"
              none == ~acquired /\ phase' # "hung"
          IN /\ free > 0 => acquired
             /\ (~controls.toggle.displacement /\ none) => free = 0]_vars

\* C15: a turn of the emission loop gets the slot on top of the free stack whenever
\* the stack holds more than buffer entries, and with displacement off it gets none
\* exactly when the stack holds at most buffer entries
AcquiresAboveBuffer ==
    [][phase = "emit" =>
          LET acquired == \E e \in 1..Len(events') :
                              /\ events'[e].kind = "acquire"
                              /\ events'[e].a = freeslots[free - 1]
                              /\ free' = free - 1
              none == /\ \A e \in 1..Len(events') : events'[e].kind # "acquire"
                      /\ phase' # "hung"
          IN /\ free > buffer => acquired
             /\ ~controls.toggle.displacement => (none <=> free <= buffer)]_vars

\* with displacement off, the emission loop of a particle that still owes a
\* quantum was left with no slot while the free stack holds one
ReserveWitness ==
    /\ phase = "bond" /\ ~controls.toggle.displacement
    /\ monads[p].emit > 0 /\ getMass(monads[p]) > 1
    /\ free > 0 /\ free <= buffer

\* C20: the eviction scan fails only when none of the first min(capacity, 1024)
\* entries of the time ring, from timeOld on, holds a live quantum of mass 1
ScanChecksCapacity ==
    [][(\E e \in 1..Len(events') : events'[e].kind = "scanfail") =>
          \A k \in 0..(Min(MAX, ScanLimit) - 1) :
              LET slot == timeslots[(timeOld + k) % MAX]
              IN ~(/\ slot > -1
                   /\ monads[slot].radius > 0
                   /\ getMass(monads[slot]) = 1)]_vars

\* C16: a turn of the emission loop that gets no slot changes no particle (the
\* emitter keeps its composition, no particle becomes live), leaves the free stack
\* and the particle counter as they were, and takes the emitter on to bond
\* maintenance in the same update
NoSlotSkipsEmission ==
    [][(/\ phase = "emit"
        /\ \A e \in 1..Len(events') : events'[e].kind # "acquire"
        /\ phase' # "hung")
       => /\ monads' = monads
          /\ freeslots' = freeslots /\ free' = free
          /\ particles' = particles
          /\ phase' = "bond" /\ p' = p /\ tick' = tick]_vars

\* the emitter is integrated in the update in which its emission loop got no slot
\* after a failed eviction scan: it moves on with the quantum still owed
NoSlotWitness ==
    /\ phase = "move" /\ controls.toggle.displacement
    /\ monads[p].emit > 0 /\ getMass(monads[p]) > 1
    /\ begun[p].emit = 0
    /\ free <= buffer

\* C17: when a collision or a bond collapse absorbs the acting particle, or a
\* collision freezes it, that is the last thing done for it in the update: no
\* collision, emission or bond event follows, its position is not integrated, and
\* the loop goes on with the next pool index (or ends the update after the last)
ActorLost(k) ==
    \/ events'[k].kind = "merged" /\ events'[k].b = p
    \/ events'[k].kind = "freeze" /\ events'[k].a = p

CompromisedActorStops ==
    [][\A k \in 1..Len(events') :
          (phase \in {"start", "bond"} /\ monads[p].radius > 0 /\ ActorLost(k))
          => /\ k = Len(events')
             /\ \/ phase' = "start" /\ p' = p + 1 /\ tick' = tick
                \/ phase' = "idle" /\ p + 1 = MAX /\ tick' = tick + 1
             /\ \/ monads'[p].radius = 0
                \/ monads'[p].position = monads[p].position]_vars

\* the loop stands at the next index right after the collision that absorbed the
\* particle before it
AbsorbedActorWitness ==
    /\ phase = "start" /\ p > 0
    /\ Len(events) > 0
    /\ events[Len(events)].kind = "merged"
    /\ events[Len(events)].b = p - 1
    /\ monads[p - 1].radius = 0

\* C18: the toroidal distance is symmetric and leaves the positions alone: after
\* a.getToroidDistanceTo(b, size, margin) the call b.getToroidDistanceTo(a, size,
\* margin) returns the same distance, and neither call changes a position
ToroidSymmetric ==
    [][\A k \in 1..Len(events') :
          events'[k].kind = "toroid"
          => /\ ToroidDistance(Cur', events'[k].b, events'[k].a,
                               events'[k].y, events'[k].z).distance = events'[k].x
             /\ ToroidDistance(Cur', events'[k].b, events'[k].a,
                               events'[k].y, events'[k].z).S.monads[events'[k].a].position
                    = monads[events'[k].a].position
             /\ \A i \in Indices : monads'[i].position = monads[i].position]_vars

\* a distance was measured that is shorter around the world than across it, with
\* a margin that gives only one of the two particles a second image
ToroidWitness ==
    \E k \in 1..Len(events) :
        /\ events[k].kind = "toroid"
        /\ events[k].z > 0
        /\ events[k].x < distanceSq(monads[events[k].a].position, monads[events[k].b].position)
        /\ FlipFlags(monads[events[k].a].position, events[k].y, events[k].z) # <<0, 0, 0>>
        /\ FlipFlags(monads[events[k].b].position, events[k].y, events[k].z) = <<0, 0, 0>>

\* C19: every live particle whose recorded ring position (slot) is >= 0 is the
\* particle the ring holds at that position
SlotPointsBack ==
    \A i \in Indices :
        (monads[i].radius > 0 /\ monads[i].slot >= 0) => timeslots[monads[i].slot] = i

EmitterKeepsMass ==
    [][/\ \A i \in Indices : monads'[i].attractons >= 0 /\ monads'[i].repulsons >= 0
       /\ phase = "emit"
          => /\ monads[p].emit >= 1
             /\ monads[p].emit <= getMass(monads[p]) - 1
       /\ \A e \in 1..Len(events') :
             (phase = "emit" /\ events'[e].kind = "emit")
             => LET q == events'[e].b
                    back == IF \E k \in 1..Len(events') :
                                   events'[k].kind = "reabsorb" /\ events'[k].b = p
                            THEN 1 ELSE 0
                IN /\ events'[e].a = p /\ e = Len(events')
                   /\ \A k \in 1..(e - 1) : events'[k].kind # "emit"
                   /\ monads'[p].emit = monads[p].emit - 1
                   /\ getMass(monads'[q]) = 1 /\ monads'[q].parentIndex = p
                   /\ getMass(monads'[p]) = getMass(monads[p]) - 1 + back
                   /\ getMass(monads'[p]) >= 1]_vars

\* a particle that began the update with mass 2, under a maximum of 2 quanta per
\* draw, has emitted one quantum and is left with mass 1, owing none
LastUnitKeptWitness ==
    /\ phase = "bond" /\ controls.emission.maximum = 2
    /\ getMass(begun[p]) = 2 /\ getMass(monads[p]) = 1 /\ monads[p].emit = 0
    /\ \E e \in 1..Len(events) : events[e].kind = "emit" /\ events[e].a = p /\ events[e].y = 1

\* C25: bond maintenance of a particle handles every particle that is in its bond
\* list when the phase starts: in particular every listed particle that is no
\* longer live is unbonded in that phase, unless the acting particle is absorbed or
\* the program stops in it
EveryBondChecked ==
    [][(phase = "bond" /\ controls.toggle.bonding) =>
       \A k \in 1..Len(monads[p].bonds) :
          LET other == monads[p].bonds[k] IN
          (/\ monads[other].radius = 0
           /\ phase' # "crashed"
           /\ \A e \in 1..Len(events') : ~(events'[e].kind = "merged" /\ events'[e].b = p))
          => \E e \in 1..Len(events') :
                 events'[e].kind = "unbond" /\ events'[e].a = p /\ events'[e].b = other]_vars

\* the first particle of the bond list of the acting particle is live and the
\* ratio of their distance to the sum of their radii is below mergeRatio
FirstBondTooClose ==
    /\ phase = "bond" /\ controls.toggle.bonding /\ Len(monads[p].bonds) > 0
    /\ monads[monads[p].bonds[1]].radius # 0
    /\ TooClose(BondDistance(monads[p].position, monads[monads[p].bonds[1]].position,
                             monads[p].radius + monads[monads[p].bonds[1]].radius),
                monads[p].radius + monads[monads[p].bonds[1]].radius)

\* the step has unbonded the acting particle and the first particle of its bond
\* list and merged them: neither lists the other, one of them is absorbed and not
\* live, and the other had the attractons and repulsons of both after the merge and
\* is live unless a later merge of the same step took it
FirstBondCollapsed ==
    LET other == monads[p].bonds[1] IN
    /\ IndexOf(monads'[p].bonds, other) = 0 /\ IndexOf(monads'[other].bonds, p) = 0
    /\ \E e \in 1..Len(events') :
          /\ events'[e].kind = "merged"
          /\ {events'[e].a, events'[e].b} = {p, other}
          /\ events'[e].x = monads[p].attractons + monads[other].attractons
          /\ events'[e].y = monads[p].repulsons + monads[other].repulsons
          /\ monads'[events'[e].b].radius = 0
          /\ (\A j \in (e + 1)..Len(events') : events'[j].kind # "merged")
             => /\ monads'[events'[e].a].radius > 0
                /\ monads'[events'[e].a].attractons = events'[e].x
                /\ monads'[events'[e].a].repulsons = events'[e].y

CrossingDirections(i, k) ==
    LET cell == CellOf(monads[i].zone)[k]
        lo == cell * zoning - size
        hi == (cell + 1) * zoning - size
    IN {d \in {-1, 1} : \/ d = -1 /\ monads[i].position[k] - monads[i].radius <= lo
                        \/ d = 1 /\ monads[i].position[k] + monads[i].radius >= hi}

\* the cells at an offset that is, on each axis, 0 or a crossing direction
CrossingCells(i) ==
    LET own == CellOf(monads[i].zone) IN
    {<<(own[1] + d[1] + length) % length, (own[2] + d[2] + length) % length,
       (own[3] + d[3] + length) % length>> :
         d \in {c \in {-1, 0, 1} \X {-1, 0, 1} \X {-1, 0, 1} :
                    \A k \in 1..3 : c[k] = 0 \/ c[k] \in CrossingDirections(i, k)}}

\* 2 to the power n
PowerOfTwo(n) == IF n = 0 THEN 1 ELSE IF n = 1 THEN 2 ELSE IF n = 2 THEN 4 ELSE 8

\* C27: the neighbour query of a live particle whose radius is below half the cell
\* size visits exactly the cells whose offset from its own cell is, on each axis, 0
\* or the direction of a face its sphere reaches: the own cell is among them, their
\* number is 2 to the number of axes with a crossing, and without a crossing the
\* own cell is the only one
CrossingCellsVisited ==
    \A i \in Indices :
        (monads[i].radius > 0 /\ 2 * monads[i].radius < zoning)
        => /\ Visited(Cur, i) = CrossingCells(i)
           /\ CellOf(monads[i].zone) \in Visited(Cur, i)
           /\ Cardinality(Visited(Cur, i))
                  = PowerOfTwo(Cardinality({k \in 1..3 : CrossingDirections(i, k) # {}}))
           /\ (\A k \in 1..3 : CrossingDirections(i, k) = {})
              => Visited(Cur, i) = {CellOf(monads[i].zone)}

\* the acting particle starts its collision phase with its sphere across a face
\* on two axes, one of them towards the lower cell, and its query visits four
\* cells; another live particle crosses no face and visits its own cell only
TwoFacesWitness ==
    /\ phase = "start" /\ monads[p].radius > 0 /\ 2 * monads[p].radius < zoning
    /\ Cardinality({k \in 1..3 : CrossingDirections(p, k) # {}}) = 2
    /\ \E k \in 1..3 : CrossingDirections(p, k) = {-1}
    /\ Cardinality(Visited(Cur, p)) = 4
    /\ \E i \in Indices : monads[i].radius > 0 /\ Cardinality(Visited(Cur, i)) = 1

\* the candidates the loop of collideInZone reads from the list of the cell, from
\* entry v on
RECURSIVE Examined(_, _, _, _, _, _, _)
\* the candidates read after a resolution
ExaminedNext(r, this, cell, oob, v) ==
    IF r.self THEN {}
    ELSE Examined(r.S, this, cell, oob, v + 1,
                  getMass(r.S.monads[this]), r.S.monads[this].radius)

\* the candidates read after the candidate other at entry v
ExaminedAfter(S, this, cell, oob, v, mass, radius, other, omass, radi) ==
    IF Skipped(this, S.monads[other], other)
    THEN Examined(S, this, cell, oob, v + 1, mass, radius)
    ELSE IF \/ ~Overlapping(S, this, other, oob, radi)
            \/ (controls.toggle.bonding /\ IndexOf(S.monads[this].bonds, other) # 0)
    THEN Examined(Predict(S, this, other, oob, radi), this, cell, oob, v + 1, mass, radius)
    ELSE ExaminedNext(Resolve(Collide(Predict(S, this, other, oob, radi), this, other),
                              this, other, mass, omass),
                      this, cell, oob, v)

Examined(S, this, cell, oob, v, mass, radius) ==
    IF v > S.array[cell][0] THEN {}
    ELSE {S.array[cell][v]} \cup
         ExaminedAfter(S, this, cell, oob, v, mass, radius, S.array[cell][v],
                       getMass(S.monads[S.array[cell][v]]),
                       radius + S.monads[S.array[cell][v]].radius
                                * (IF /\ ~controls.toggle.quantaCollide
                                      /\ controls.toggle.quantaRandCollide
                                      /\ mass = 1
                                      /\ getMass(S.monads[S.array[cell][v]]) = 1
                                   THEN 2 ELSE 1))

\* the first offset, in loop order, of a cell the query of the particle searches
FirstOffset(S, this) ==
    LET m == S.monads[this]
        cross == [k \in 1..3 |-> Crossover(m.position[k], m.radius, CellOf(m.zone)[k])]
        k == CHOOSE j \in 0..26 : /\ Searched(cross, Offset(j, 1))
                                  /\ \A i \in 0..(j - 1) : ~Searched(cross, Offset(i, 1))
    IN IF \E j \in 1..3 : cross[j] # <<0, 0>> THEN Offset(k, 1) ELSE <<0, 0, 0>>

\* the scan of the list of the cell by the particle, from the state S: unless
\* the particle is absorbed in it, every particle of the list that is another
\* particle, live and of non-negative countdown when the scan ends was read
ScanReads(S, this, xi, x2) ==
    LET oob == IF xi # x2 THEN zoning ELSE 0
        r == collideInZone(S, this, x2, oob, 1, getMass(S.monads[this]), Reach(S, this))
        read == Examined(S, this, x2, oob, 1, getMass(S.monads[this]), Reach(S, this))
    IN r.self \/ \A v \in 1..S.array[x2][0] :
                     LET c == S.array[x2][v] IN
                     (c # this /\ r.S.monads[c].radius > 0 /\ r.S.monads[c].countdown >= 0)
                     => c \in read

\* the scan of the first cell the query of the particle searches, from the state
\* S its collision phase starts in
FirstScanReads(S, this) ==
    LET own == CellOf(S.monads[this].zone)
        dif == FirstOffset(S, this)
        xi == <<own[1] + dif[1], own[2] + dif[2], own[3] + dif[3]>>
    IN ScanReads(S, this, xi, <<WrapZone(xi[1]), WrapZone(xi[2]), WrapZone(xi[3])>>)

\* whether the acting particle, of radius below half the cell size, runs a
\* collision phase in the step that starts its processing
ScansCells ==
    /\ phase = "start" /\ monads[p].radius > 0 /\ 2 * monads[p].radius < zoning
    /\ controls.toggle.collision
    /\ Escape(Cur, p).esc
    /\ controls.toggle.quantaCollide \/ getMass(monads[p]) > 1

\* C28: in the collision scan of one cell list, every particle that is in the list
\* when the scan starts and is still live and collision-eligible when it ends has
\* been examined as a candidate, also when an earlier candidate of the list was
\* merged away or the acting particle changed cell during the scan
ScanExaminesAll ==
    ScansCells => FirstScanReads(Counted(Escape(Cur, p), p).S, p)

\* C29: a particle with a negative countdown has mass exactly 1 and its countdown
\* is -(parentIndex + 1); and a negative countdown is replaced by a non-negative
\* one only in the step in which the escape check of the particle succeeds or in
\* a step that nullifies the particle: no collision, bond, unbond, merge or
\* recolouring of any particle overwrites it
EscapeCountdownKept ==
    [][\A i \in Indices :
          /\ monads'[i].countdown < 0
             => /\ getMass(monads'[i]) = 1
                /\ monads'[i].countdown = -(monads'[i].parentIndex + 1)
          /\ (monads[i].countdown < 0 /\ monads'[i].countdown >= 0)
             => \/ monads'[i].radius = 0
                \/ phase = "start" /\ p = i /\ Escape(Cur, i).esc]_vars

\* the entries of the time ring that hold a slot
RingEntries == {k \in 0..(MAX - 1) : timeslots[k] # -1}

\* C30: the loops of a tick end: a turn of the emission loop starts with at least
\* one quantum owed and each turn that is followed by another has taken one off the
\* owed count; an eviction scan that finds nothing gives up at its limit of
\* min(ring capacity, 1024) entries, all but the last of which it has passed; and
\* the advance of the ring tail always finds an empty entry, the ring not being
\* full when a slot is acquired
TickLoopsEnd ==
    [][/\ phase' # "hung"
       /\ \A e \in 1..Len(events') : events'[e].kind # "hang"
       /\ phase = "emit"
          => /\ monads[p].emit >= 1
             /\ phase' = "emit" => (p' = p /\ monads'[p].emit = monads[p].emit - 1)
       /\ (\E e \in 1..Len(events') : events'[e].kind = "scanfail")
          => (timeOld' - timeOld + MAX) % MAX = Min(MAX, ScanLimit) - 1
       /\ (\E e \in 1..Len(events') : events'[e].kind = "acquire")
          => \/ RingEntries # 0..(MAX - 1)
             \/ \E e \in 1..Len(events') : events'[e].kind = "evict"]_vars

\* a particle that owed two quanta is in the second turn of its emission loop:
\* the first turn has evicted a quantum, acquired its slot and emitted into it
SecondTurnWitness ==
    /\ phase = "emit" /\ monads[p].emit = 1
    /\ \E e \in 1..Len(events) : events[e].kind = "evict"
    /\ \E e \in 1..Len(events) : events[e].kind = "acquire"
    /\ \E e \in 1..Len(events) : events[e].kind = "emit" /\ events[e].a = p

====
